---- MODULE Spec2Model ----
(***************************************************************************)
(* A model of the Prettier formatter plugin (src/__init__.py): the config  *)
(* store (load_config), the executable resolver                            *)
(* (find_prettier_executable), the command builder                         *)
(* (build_prettier_command) and the format request (do_format).            *)
(*                                                                         *)
(* Python strings are sequences of atoms.  An atom is either one           *)
(* whitespace character (a member of Whitespace), the documentation marker *)
(* "//", a path separator or drive that begins or ends a directory handed  *)
(* to os.path.join ("/", "\\", "C:"), one backslash ("\\"), one quote ("'" *)
(* or the double quote), an opaque run of other printable characters that  *)
(* holds none of these, or a punctuation mark that repr() writes.          *)
(* Python values are records with a type tag.  A dict value is a function  *)
(* (field d) with the insertion order of its keys (field k).  The config   *)
(* dict and its 'prettier_options', which the program only reads by key,   *)
(* are handled as the functions.                                           *)
(***************************************************************************)
EXTENDS Integers, Sequences, FiniteSets, TLC

\* ------------------------------------------------------------------ bounds

\* Largest number a config file of the enumerated inputs holds.
MaxNum == 2
\* Children of timed-out requests that may still be running at once.
MaxOrphans == 1
\* Longest text handed to do_format, and longest output of the formatter, in atoms.
MaxLen == 2

\* ----------------------------------------------------------------- strings

\* the characters str.strip() and str.split() take as whitespace: space, tab,
\* newline, carriage return, form feed, and, written as their escapes, the
\* vertical tab, the separators 0x1c to 0x1f and the Unicode spaces
Whitespace ==
    {" ", "\t", "\n", "\r", "\f", "\\x0b", "\\x1c", "\\x1d", "\\x1e", "\\x1f", "\\x85",
     "\\xa0", "\\u1680", "\\u2000", "\\u2001", "\\u2002", "\\u2003", "\\u2004",
     "\\u2005", "\\u2006", "\\u2007", "\\u2008", "\\u2009", "\\u200a", "\\u2028",
     "\\u2029", "\\u202f", "\\u205f", "\\u3000"}

\* s.strip() == '' (s is whitespace only, or empty)
IsBlank(s) == \A i \in 1..Len(s) : s[i] \in Whitespace

RECURSIVE LStrip(_)
LStrip(s) == IF s # <<>> /\ Head(s) \in Whitespace THEN LStrip(Tail(s)) ELSE s

RECURSIVE RStrip(_)
RStrip(s) ==
    IF s # <<>> /\ s[Len(s)] \in Whitespace
    THEN RStrip(SubSeq(s, 1, Len(s) - 1))
    ELSE s

\* str.strip()
Strip(s) == RStrip(LStrip(s))

\* ' ' in s
HasSpace(s) == \E i \in 1..Len(s) : s[i] = " "

\* str.split(): the maximal runs of non-whitespace atoms, in order.
RECURSIVE SplitFrom(_, _, _)
SplitFrom(s, cur, acc) ==
    IF s = <<>>
    THEN IF cur = <<>> THEN acc ELSE Append(acc, cur)
    ELSE IF Head(s) \in Whitespace
         THEN SplitFrom(Tail(s), <<>>, IF cur = <<>> THEN acc ELSE Append(acc, cur))
         ELSE SplitFrom(Tail(s), Append(cur, Head(s)), acc)

Split(s) == SplitFrom(s, <<>>, <<>>)

\* k.startswith('//')
StartsWithMarker(k) == k # <<>> /\ Head(k) = "//"

\* os.sep and the characters os.path takes as separators; os.path is ntpath
\* when IS_WIN
Sep(win) == IF win THEN "\\" ELSE "/"
Seps(win) == IF win THEN {"\\", "/"} ELSE {"/"}

\* the drive letters of the enumerated Windows paths
DriveAtoms == {"C:", "D:"}

\* os.path.splitdrive(p): the drive, empty off Windows, and the rest.  UNC
\* shares are not modelled.
DriveOf(win, p) == IF win /\ p # <<>> /\ Head(p) \in DriveAtoms THEN <<Head(p)>> ELSE <<>>
RestOf(win, p) == IF DriveOf(win, p) # <<>> THEN Tail(p) ELSE p

\* os.path.join(a, b): b alone when b is rooted (on a's drive when b names
\* none) or names another drive; else a, a separator unless a is empty or ends
\* with one, and b
PathJoin(win, a, b) ==
    LET a_drive == DriveOf(win, a)
        a_path == RestOf(win, a)
        b_drive == DriveOf(win, b)
        b_path == RestOf(win, b)
    IN  IF b_path # <<>> /\ Head(b_path) \in Seps(win)
        THEN (IF b_drive # <<>> \/ a_drive = <<>> THEN b_drive ELSE a_drive) \o b_path
        ELSE IF b_drive # <<>> /\ b_drive # a_drive
        THEN b_drive \o b_path
        ELSE a_drive
             \o (IF a_path # <<>> /\ a_path[Len(a_path)] \notin Seps(win)
                 THEN Append(a_path, Sep(win))
                 ELSE a_path)
             \o b_path

\* ------------------------------------------------------------------ values

EmptyMap == [k \in {} |-> 0]

VNone == [t |-> "none", n |-> 0, s |-> <<>>, d |-> EmptyMap, k |-> <<>>]
VBool(b) == [t |-> "bool", n |-> IF b THEN 1 ELSE 0, s |-> <<>>, d |-> EmptyMap, k |-> <<>>]
VInt(i) == [t |-> "int", n |-> i, s |-> <<>>, d |-> EmptyMap, k |-> <<>>]
\* the float i.0
VFloat(i) == [t |-> "float", n |-> i, s |-> <<>>, d |-> EmptyMap, k |-> <<>>]
VStr(s) == [t |-> "str", n |-> 0, s |-> s, d |-> EmptyMap, k |-> <<>>]
\* a dict: d maps its keys to their values, order lists the keys as inserted
VDictIn(d, order) == [t |-> "dict", n |-> 0, s |-> <<>>, d |-> d, k |-> order]
\* one order of a set of keys
RECURSIVE KeysInOrder(_)
KeysInOrder(keys) ==
    IF keys = {} THEN <<>>
    ELSE LET x == CHOOSE y \in keys : TRUE
         IN  <<x>> \o KeysInOrder(keys \ {x})
\* a dict of the enumerated inputs, its keys written in the order KeysInOrder gives
VDict(d) == VDictIn(d, KeysInOrder(DOMAIN d))
\* a list: items is the sequence of its elements
VList(items) == [t |-> "list", n |-> 0, s |-> <<>>, d |-> items, k |-> <<>>]

\* the key order of dict.update(other): the keys of order, then other's new keys
UpdateOrder(order, other) ==
    LET IsNew(x) == \A i \in 1..Len(order) : order[i] # x
    IN  order \o SelectSeq(other, IsNew)

\* a one-atom string without whitespace
W(a) == VStr(<<a>>)
\* a plain key, and the key of the comment on it: '// <name>'
K(a) == <<a>>
C(a) == <<"//", " ", a>>

\* bool(v)
Truthy(v) ==
    CASE v.t = "none" -> FALSE
      [] v.t = "bool" -> v.n = 1
      [] v.t \in {"int", "float"} -> v.n # 0
      [] v.t = "str" -> v.s # <<>>
      [] v.t = "dict" -> DOMAIN v.d # {}
      [] v.t = "list" -> DOMAIN v.d # {}
      [] OTHER -> FALSE

Digit == <<"0", "1", "2", "3", "4", "5", "6", "7", "8", "9">>

RECURSIVE NatToStr(_)
NatToStr(i) == IF i < 10 THEN Digit[i + 1] ELSE NatToStr(i \div 10) \o Digit[(i % 10) + 1]

IntToStr(i) == IF i < 0 THEN "-" \o NatToStr(-i) ELSE NatToStr(i)

\* the quote repr() puts around a string: the double quote when the string
\* holds a single quote and no double quote, the single quote otherwise
ReprQuote(str) ==
    IF (\E i \in 1..Len(str) : str[i] = "'") /\ ~(\E i \in 1..Len(str) : str[i] = "\"")
    THEN "\"" ELSE "'"

\* a character of a string as repr() writes it between the quotes q
ReprAtom(a, q) ==
    CASE a = "\\" -> "\\\\"
      [] a = q -> "\\" \o q
      [] a = "\t" -> "\\t"
      [] a = "\n" -> "\\n"
      [] a = "\r" -> "\\r"
      [] a = "\f" -> "\\x0c"
      [] OTHER -> a

\* repr(v), as a string of atoms: the entries of a dict in insertion order
RECURSIVE Repr(_)
RECURSIVE ReprItems(_, _)
RECURSIVE ReprEntries(_, _, _)
Repr(v) ==
    CASE v.t = "none" -> <<"None">>
      [] v.t = "bool" -> <<IF v.n = 1 THEN "True" ELSE "False">>
      [] v.t = "int" -> <<IntToStr(v.n)>>
      [] v.t = "float" -> <<IntToStr(v.n) \o ".0">>
      [] v.t = "str" -> <<ReprQuote(v.s)>>
                        \o [i \in 1..Len(v.s) |-> ReprAtom(v.s[i], ReprQuote(v.s))]
                        \o <<ReprQuote(v.s)>>
      [] v.t = "dict" -> <<"{">> \o ReprEntries(v.d, v.k, 1) \o <<"}">>
      [] OTHER -> <<"[">> \o ReprItems(v.d, 1) \o <<"]">>

ReprItems(items, i) ==
    IF i > Len(items) THEN <<>>
    ELSE Repr(items[i])
         \o (IF i < Len(items) THEN <<",", " ">> ELSE <<>>)
         \o ReprItems(items, i + 1)

ReprEntries(d, order, i) ==
    IF i > Len(order) THEN <<>>
    ELSE Repr(VStr(order[i])) \o <<":", " ">> \o Repr(d[order[i]])
         \o (IF i < Len(order) THEN <<",", " ">> ELSE <<>>)
         \o ReprEntries(d, order, i + 1)

\* str(v): the string itself, and repr(v) for every other value
PyStr(v) == IF v.t = "str" THEN v ELSE VStr(Repr(v))

\* dict.get(key, default)
Get(d, key, default) == IF key \in DOMAIN d THEN d[key] ELSE default

\* dict.update(other): other's entries overwrite or extend d's
Update(d, other) ==
    [k \in DOMAIN d \cup DOMAIN other |-> IF k \in DOMAIN other THEN other[k] ELSE d[k]]

\* ---------------------------------------------------------------- constants

LEXER_TO_PARSER ==
    [l \in {"JavaScript", "JavaScript Babel", "TypeScript", "CSS", "SCSS", "LESS",
            "HTML", "XML", "Markdown", "MDX", "JSON", "YAML", "GraphQL",
            "HTML Handlebars", "HTML Laravel Blade", "HTML Django DTL",
            "Jinja2", "Twig", "Svelte", "Vue", "Pug", "Jade"} |->
        CASE l = "JavaScript" -> W("babel")
          [] l = "JavaScript Babel" -> W("babel-flow")
          [] l = "TypeScript" -> W("typescript")
          [] l = "CSS" -> W("css")
          [] l = "SCSS" -> W("scss")
          [] l = "LESS" -> W("less")
          [] l = "Markdown" -> W("markdown")
          [] l = "MDX" -> W("mdx")
          [] l = "JSON" -> W("json")
          [] l = "YAML" -> W("yaml")
          [] l = "GraphQL" -> W("graphql")
          [] l = "Vue" -> W("vue")
          [] l \in {"Pug", "Jade"} -> W("pug")
          [] OTHER -> W("html")]

\* the option keys of DEFAULT_CONFIG['prettier_options'], with their defaults
DefaultOptionValues ==
    [printWidth |-> VInt(80), tabWidth |-> VInt(2), useTabs |-> VBool(FALSE),
     semi |-> VBool(TRUE), singleQuote |-> VBool(FALSE), jsxSingleQuote |-> VBool(FALSE),
     quoteProps |-> W("as-needed"), trailingComma |-> W("es5"),
     bracketSpacing |-> VBool(TRUE), bracketSameLine |-> VBool(FALSE),
     arrowParens |-> W("always"), proseWrap |-> W("preserve"),
     htmlWhitespaceSensitivity |-> W("css"), vueIndentScriptAndStyle |-> VBool(FALSE),
     endOfLine |-> W("lf"), embeddedLanguageFormatting |-> W("auto"),
     singleAttributePerLine |-> VBool(FALSE), objectWrap |-> W("preserve"),
     experimentalTernaries |-> VBool(FALSE), insertPragma |-> VBool(FALSE),
     requirePragma |-> VBool(FALSE), rangeStart |-> VInt(0), rangeEnd |-> W("Infinity")]

\* the option names in the order DEFAULT_CONFIG['prettier_options'] lists them
DefaultOptionNames ==
    <<"printWidth", "tabWidth", "useTabs", "semi", "singleQuote", "jsxSingleQuote",
      "quoteProps", "trailingComma", "bracketSpacing", "bracketSameLine",
      "arrowParens", "proseWrap", "htmlWhitespaceSensitivity",
      "vueIndentScriptAndStyle", "endOfLine", "embeddedLanguageFormatting",
      "singleAttributePerLine", "objectWrap", "experimentalTernaries",
      "insertPragma", "requirePragma", "rangeStart", "rangeEnd">>

\* the keys of DEFAULT_CONFIG['prettier_options'] in order: each option, then
\* the comment on it
DefaultOptionOrder ==
    [i \in 1..(2 * Len(DefaultOptionNames)) |->
        IF i % 2 = 1 THEN K(DefaultOptionNames[(i + 1) \div 2])
        ELSE C(DefaultOptionNames[i \div 2])]

\* the keys of DEFAULT_CONFIG in order
DefaultConfigOrder ==
    <<K("prettier_path"), C("prettier_path"), K("timeout_seconds"),
      C("timeout_seconds"), K("use_prettier_config_file"),
      C("use_prettier_config_file"),
      <<"//", " ", "PRETTIER", " ", "OPTIONS", " ", "NOTE">>, K("prettier_options")>>

\* DEFAULT_CONFIG['prettier_options']: every option and the comment on it
DEFAULT_OPTIONS ==
    LET names == DOMAIN DefaultOptionValues
    IN  [k \in {K(a) : a \in names} \cup {C(a) : a \in names} |->
            IF StartsWithMarker(k) THEN W("doc") ELSE DefaultOptionValues[k[1]]]

DEFAULT_CONFIG ==
    (K("prettier_path") :> VStr(<<>>)) @@
    (C("prettier_path") :> W("doc")) @@
    (K("timeout_seconds") :> VInt(10)) @@
    (C("timeout_seconds") :> W("doc")) @@
    (K("use_prettier_config_file") :> VBool(TRUE)) @@
    (C("use_prettier_config_file") :> W("doc")) @@
    (<<"//", " ", "PRETTIER", " ", "OPTIONS", " ", "NOTE">> :> W("doc")) @@
    (K("prettier_options") :> VDictIn(DEFAULT_OPTIONS, DefaultOptionOrder))

\* the module-level objects as the import of the plugin leaves them
ModuleGlobals == [DEFAULT_CONFIG |-> DEFAULT_CONFIG, LEXER_TO_PARSER |-> LEXER_TO_PARSER]

\* ------------------------------------------------------------- the state

VARIABLES
    file,      \* the config file: [st, doc]; st is "missing", "unreadable" or "ok"
    fileRead,  \* the config file as the last load_config() found it
    env,       \* what the resolver and the request read from the host (see Env)
    pc,        \* "idle", "communicating" (do_format waits for the child), "returned", "raised"
    op,        \* the operation that ran last
    text,      \* do_format's text argument
    lexer,     \* do_format's lexer argument
    parser,    \* the parser build_prettier_command was given
    config,    \* the configuration load_config returned last
    exe,       \* what find_prettier_executable did last: [kind, path, probes]
    cmd,       \* what build_prettier_command did last: [raised, tokens]
    timeout,   \* the timeout do_format passed to communicate()
    child,     \* the formatter process of the request: [st, rc, out]; st is "none",
               \* "running", "completed" (communicate() returned its output) or
               \* "ended" (it ended after do_format had stopped waiting)
    orphans,   \* children of earlier requests that are still running
    ret,       \* what do_format returned: VNone or a string
    outcome,   \* the exit of do_format taken: "none", "asis", "unsupported",
               \* "notfound", "spawnfailed", "failed", "empty", "success",
               \* "timeout", "raised"
    globals,   \* the module-level objects DEFAULT_CONFIG and LEXER_TO_PARSER as they
               \* are in the running plugin
    prettierrc,  \* the .prettierrc of the project directory: [st, doc]
    customised,  \* whether a load_config() of this session has returned an options
                 \* block that differs from the default one
    versionRun   \* the subprocess Command.help ran to ask the executable for its
                 \* version: [argv, timeout, outcome]

vars == <<file, fileRead, env, pc, op, text, lexer, parser, config, exe, cmd, timeout, child,
          orphans, ret, outcome, globals, prettierrc, customised, versionRun>>

\* The host as the resolver and the request see it:
\*   win      IS_WIN
\*   root     os.path.dirname(ct.app_path(ct.APP_DIR_DATA))
\*   cwd      os.getcwd()
\*   files    the paths that are regular files
\*   dirs     the paths that are directories
\*   which    shutil.which('prettier'): VNone or a path
\*   edLexer  ct.ed.get_prop(ct.PROP_LEXER_FILE)
\*   spawns   whether Popen finds the executable it is given

\* a host with nothing installed, the application in /app, the process in /work
Root == <<"/", "app">>
Cwd == <<"/", "work">>
\* the same on Windows: C:\app and C:\work
WinRoot == <<"C:", "\\", "app">>
WinCwd == <<"C:", "\\", "work">>

HostOf(win) == [win |-> win,
                root |-> IF win THEN WinRoot ELSE Root,
                cwd |-> IF win THEN WinCwd ELSE Cwd,
                files |-> {}, dirs |-> {},
                which |-> VNone, edLexer |-> "", spawns |-> TRUE]

\* before the first call
NoExe == [kind |-> "unset", path |-> <<>>, probes |-> <<>>]
NoCmd == [raised |-> FALSE, tokens |-> <<>>]
NoChild == [st |-> "none", rc |-> 0, out |-> <<>>, err |-> <<>>]
NoPrettierrc == [st |-> "missing", doc |-> VNone]
NoRun == [argv |-> <<>>, timeout |-> 0, outcome |-> "none"]

\* the plugin has just been imported and no command has run
Imported ==
    /\ globals = ModuleGlobals
    /\ prettierrc = NoPrettierrc
    /\ customised = FALSE
    /\ versionRun = NoRun

\* a key left out of a dict
Absent == [t |-> "absent", n |-> 0, s |-> <<>>, d |-> EmptyMap, k |-> <<>>]

\* the dicts that give every key k of keys one of choices[k], or leave it out on Absent
RECURSIVE DictsOver(_, _)
DictsOver(keys, choices) ==
    IF keys = {}
    THEN {EmptyMap}
    ELSE LET k == CHOOSE x \in keys : TRUE
         IN  {IF v = Absent THEN d ELSE (k :> v) @@ d :
                  d \in DictsOver(keys \ {k}, choices), v \in choices[k]}

DictsOf(choices) == DictsOver(DOMAIN choices, choices)

\* ---------------------------------------------------------- the config store

\* _filter_comments(config_dict)
FilterComments(config_dict) ==
    [k \in {x \in DOMAIN config_dict : ~StartsWithMarker(x)} |-> config_dict[k]]

\* the key order of _filter_comments(config_dict): the kept keys, in place
FilterOrder(order) ==
    LET Kept(x) == ~StartsWithMarker(x)
    IN  SelectSeq(order, Kept)

\* _filter_comments(copy.deepcopy(DEFAULT_CONFIG))
FilteredDefaults == FilterComments(DEFAULT_CONFIG)

\* a merge that puts the user's block in place of the default block
MergeOptionsReplacing(options, user_options) == FilterComments(user_options)

\* config['prettier_options'].update(_filter_comments(user_config['prettier_options']))
MergeOptions(options, user_options) == Update(options, FilterComments(user_options))

\* a copy that takes over the options dict of its source: dict(DEFAULT_CONFIG)
CopiedOptionsShared(owner) == owner

\* the holder of the options dict in copy.deepcopy(DEFAULT_CONFIG), whose source
\* holds it in owner: the copy, with an options dict of its own
CopiedOptions(owner) == "copy"

\* config['prettier_options'].update(_filter_comments(user_config['prettier_options']))
\* on config = _filter_comments(copy.deepcopy(DEFAULT_CONFIG)).  There are two
\* options dicts, the module's and the copy's; _filter_comments keeps the
\* reference the copy gave it, and update() writes into the dict that
\* reference leads to.  options: config['prettier_options'] afterwards;
\* defaults: DEFAULT_CONFIG afterwards.
UpdateOptions(defaults, user_options) ==
    LET po == K("prettier_options")
        dicts == [module |-> defaults[po], copy |-> defaults[po]]
        target == CopiedOptions("module")
        after == [dicts EXCEPT ![target] =
                     VDictIn(MergeOptions(@.d, user_options.d),
                             UpdateOrder(@.k, FilterOrder(user_options.k)))]
    IN  [options |-> after[target],
         defaults |-> [defaults EXCEPT ![po] = after.module]]

\* the try block of load_config on a parsed document, with DEFAULT_CONFIG as it
\* is when the block runs; "raised" stands for any exception of the block, which
\* the handlers turn into the filtered defaults.  defaults is DEFAULT_CONFIG as
\* the block leaves it.
MergeUserConfig(defaults, user_config) ==
    LET cfg == FilterComments(defaults)
        po == K("prettier_options")
    IN  IF user_config.t # "dict"
        THEN [raised |-> TRUE, config |-> cfg, defaults |-> defaults]
        ELSE IF po \in DOMAIN user_config.d /\ user_config.d[po].t # "dict"
        THEN [raised |-> TRUE, config |-> cfg, defaults |-> defaults]
        ELSE LET updated ==
                     IF po \in DOMAIN user_config.d
                     THEN UpdateOptions(defaults, user_config.d[po])
                     ELSE [options |-> cfg[po], defaults |-> defaults]
                 merged == [cfg EXCEPT ![po] = updated.options]
                 rest == [k \in DOMAIN user_config.d \ {po} |-> user_config.d[k]]
             IN  [raised |-> FALSE,
                  config |-> Update(merged, FilterComments(rest)),
                  defaults |-> updated.defaults]

\* load_config(), with DEFAULT_CONFIG as it is when the call starts: the
\* configuration returned, the config file afterwards and DEFAULT_CONFIG
\* afterwards.  writable: whether creating the default file succeeds.  The guard
\* on a config path of None ("nopath") is kept as written, although
\* get_config_path() always yields a path and no enumerated file takes it.
LoadConfig(defaults, f, writable) ==
    CASE f.st = "nopath" ->
            [config |-> FilterComments(defaults), file |-> f, defaults |-> defaults]
      [] f.st = "missing" ->
            [config |-> FilterComments(defaults),
             file |-> IF writable
                      THEN [st |-> "ok", doc |-> VDictIn(defaults, DefaultConfigOrder)]
                      ELSE f,
             defaults |-> defaults]
      [] f.st = "unreadable" ->
            [config |-> FilterComments(defaults), file |-> f, defaults |-> defaults]
      [] OTHER ->
            LET m == MergeUserConfig(defaults, f.doc)
            IN  [config |-> IF m.raised THEN FilterComments(m.defaults) ELSE m.config,
                 file |-> f,
                 defaults |-> m.defaults]

\* ---- the config files enumerated for load_config

UserOptionBlocks ==
    DictsOf((K("printWidth") :> {Absent, VInt(MaxNum)}) @@
            (K("semi") :> {Absent, VBool(FALSE)}) @@
            (K("rangeEnd") :> {Absent, VInt(MaxNum)}) @@
            (K("quoteProps") :> {Absent, VInt(MaxNum), W("preserve")}) @@
            (K("newOption") :> {Absent, W("on")}) @@
            (C("semi") :> {Absent, W("my note")}))

UserDocs ==
    {VList(<<>>), VNone} \cup
    {VDict(d) : d \in DictsOf(
        (K("prettier_path") :> {Absent, W("x")}) @@
        (K("timeout_seconds") :> {Absent, VInt(MaxNum)}) @@
        (K("extra_key") :> {Absent, VBool(TRUE)}) @@
        (C("extra_key") :> {Absent, W("my note")}) @@
        (K("prettier_options") :>
            ({Absent, VNone} \cup {VDict(o) : o \in UserOptionBlocks})))}

LoadFiles ==
    {[st |-> "missing", doc |-> VNone], [st |-> "unreadable", doc |-> VNone]} \cup
    {[st |-> "ok", doc |-> d] : d \in UserDocs}

InitLoad ==
    /\ file \in LoadFiles
    /\ fileRead = [st |-> "unset", doc |-> VNone]
    /\ env = HostOf(FALSE)
    /\ pc = "idle" /\ op = "none"
    /\ text = <<>> /\ lexer = "" /\ parser = W("")
    /\ config = EmptyMap
    /\ exe = NoExe /\ cmd = NoCmd
    /\ timeout = VNone /\ child = NoChild /\ orphans = 0 /\ ret = VNone
    /\ outcome = "none"
    /\ Imported

\* one call of load_config()
LoadConfigCall ==
    /\ pc = "idle"
    /\ \E writable \in BOOLEAN :
          \E r \in {LoadConfig(globals.DEFAULT_CONFIG, file, writable)} :
              /\ config' = r.config /\ file' = r.file
              /\ globals' = [globals EXCEPT !.DEFAULT_CONFIG = r.defaults]
              /\ customised' = (customised \/ r.config[K("prettier_options")]
                                                # FilteredDefaults[K("prettier_options")])
    /\ fileRead' = file
    /\ pc' = "returned"
    /\ op' = "load_config"
    /\ UNCHANGED <<env, text, lexer, parser, exe, cmd, timeout, child, orphans, ret, outcome,
                   prettierrc, versionRun>>

NextLoad == LoadConfigCall

SpecLoad == InitLoad /\ [][NextLoad]_vars

\* ---- the claims on load_config

PlainKeys(d) == {k \in DOMAIN d : ~StartsWithMarker(k)}
OptionsKey == K("prettier_options")
LoadedOptions == config[OptionsKey].d
\* the last load_config() read a JSON object
ReadObject == fileRead.st = "ok" /\ fileRead.doc.t = "dict"
\* ... whose prettier_options entry is an object too
ReadOptions ==
    /\ ReadObject
    /\ OptionsKey \in DOMAIN fileRead.doc.d
    /\ fileRead.doc.d[OptionsKey].t = "dict"

\* C3: the configuration load_config returns holds no key that begins with '//',
\* at the top level or inside prettier_options, and holds every plain key of the
\* defaults and of the user's file.
C3_CommentsStripped ==
    op = "load_config" =>
        /\ \A k \in DOMAIN config : ~StartsWithMarker(k)
        /\ config[OptionsKey].t = "dict"
        /\ \A k \in DOMAIN LoadedOptions : ~StartsWithMarker(k)
        /\ PlainKeys(DEFAULT_CONFIG) \subseteq DOMAIN config
        /\ PlainKeys(DEFAULT_OPTIONS) \subseteq DOMAIN LoadedOptions
        /\ ReadObject => PlainKeys(fileRead.doc.d) \subseteq DOMAIN config
        /\ ReadOptions => PlainKeys(fileRead.doc.d[OptionsKey].d) \subseteq DOMAIN LoadedOptions

\* C8: after load_config the prettier_options block holds every plain key of the
\* default options, and where a user file was merged every plain key of the user's
\* block with the user's value.
C8_DefaultOptionKeysKept ==
    op = "load_config" =>
        /\ config[OptionsKey].t = "dict"
        /\ \A a \in DOMAIN DefaultOptionValues : K(a) \in DOMAIN LoadedOptions
        /\ ReadOptions =>
              \A k \in PlainKeys(fileRead.doc.d[OptionsKey].d) :
                  k \in DOMAIN LoadedOptions
                  /\ LoadedOptions[k] = fileRead.doc.d[OptionsKey].d[k]

\* a user block that overwrites printWidth, adds newOption and leaves semi out
C8_Witness ==
    /\ op = "load_config"
    /\ ReadOptions
    /\ DOMAIN fileRead.doc.d[OptionsKey].d = {K("printWidth"), K("newOption")}
    /\ LoadedOptions[K("printWidth")] = VInt(MaxNum)
    /\ LoadedOptions[K("newOption")] = W("on")
    /\ LoadedOptions[K("semi")] = VBool(TRUE)

\* ------------------------------------------------------ the executable resolver

Exists(e, path) == path \in e.files \cup e.dirs
IsFile(e, path) == path \in e.files

ToolsDir(e) == PathJoin(e.win, PathJoin(e.win, e.root, <<"tools">>), <<"Prettier">>)

\* the bundled names tried, in order
BundledNames(e) == IF e.win THEN << <<"prettier.exe">>, <<"prettier.cmd">> >> ELSE << <<"prettier">> >>

BundledCandidates(e) ==
    [i \in 1..Len(BundledNames(e)) |-> PathJoin(e.win, ToolsDir(e), BundledNames(e)[i])]

LocalPrettier(e) ==
    PathJoin(e.win, PathJoin(e.win, PathJoin(e.win, e.cwd, <<"node_modules">>), <<".bin">>),
             IF e.win THEN <<"prettier.cmd">> ELSE <<"prettier">>)

PackageManagers(e) ==
    IF e.win
    THEN << <<"npx.cmd", " ", "prettier">>, <<"yarn.cmd", " ", "exec", " ", "prettier">>,
            <<"pnpm.cmd", " ", "exec", " ", "prettier">>, <<"bunx.cmd", " ", "prettier">> >>
    ELSE << <<"npx", " ", "prettier">>, <<"yarn", " ", "exec", " ", "prettier">>,
            <<"pnpm", " ", "exec", " ", "prettier">>, <<"bunx", " ", "prettier">> >>

\* what a probe subprocess can do: exit with status zero, exit with another
\* status, fail to start (an exception), or run into the timeout of 3
\* (subprocess.run kills the probe and raises TimeoutExpired)
ProbeOutcomes == {"zero", "nonzero", "raise", "timeout"}
ProbeTimeout == 3

\* the loop over package_managers from candidate i on: the probes run, with the
\* outcome of each, and the index of the candidate returned (0: none)
RECURSIVE ProbeFrom(_, _, _, _)
ProbeFrom(i, e, outcomes, log) ==
    IF i > Len(PackageManagers(e))
    THEN [hit |-> 0, probes |-> log]
    ELSE LET run == [argv |-> Split(PackageManagers(e)[i]) \o << <<"--version">> >>,
                     timeout |-> ProbeTimeout,
                     outcome |-> outcomes[i]]
         IN  IF outcomes[i] = "zero"
             THEN [hit |-> i, probes |-> Append(log, run)]
             ELSE ProbeFrom(i + 1, e, outcomes, Append(log, run))

ProbePackageManagers(e, outcomes) == ProbeFrom(1, e, outcomes, <<>>)

FoundPath(path, probes) == [kind |-> "path", path |-> path, probes |-> probes]

\* find_prettier_executable(config): kind is "path" (path returned), "none"
\* (None returned) or "raise" (an exception left the function)
FindPrettierExecutable(cfg, e, outcomes) ==
    LET pp == Get(cfg, K("prettier_path"), VStr(<<>>))
        custom_path == Strip(pp.s)
        bundled == {i \in DOMAIN BundledCandidates(e) : IsFile(e, BundledCandidates(e)[i])}
        pm == ProbePackageManagers(e, outcomes)
    IN  IF pp.t # "str"
        THEN [kind |-> "raise", path |-> <<>>, probes |-> <<>>]
        ELSE IF custom_path # <<>> /\ Exists(e, custom_path)
        THEN FoundPath(custom_path, <<>>)
        ELSE IF bundled # {}
        THEN FoundPath(BundledCandidates(e)[CHOOSE i \in bundled : \A j \in bundled : i <= j], <<>>)
        ELSE IF IsFile(e, LocalPrettier(e))
        THEN FoundPath(LocalPrettier(e), <<>>)
        ELSE IF pm.hit # 0
        THEN FoundPath(PackageManagers(e)[pm.hit], pm.probes)
        ELSE IF Truthy(e.which)
        THEN FoundPath(e.which.s, pm.probes)
        ELSE [kind |-> "none", path |-> <<>>, probes |-> pm.probes]

\* ---- the hosts and configurations enumerated for the resolver

CustomX == <<"/opt/prettier">>
CustomXPadded == <<"/opt/prettier", " ">>
PathHit == <<"/usr/bin/prettier">>
FindEnvsOn(win) ==
    {[HostOf(win) EXCEPT !.files = f, !.dirs = d, !.which = w] :
        f \in SUBSET ({CustomX, CustomXPadded, LocalPrettier(HostOf(win))}
                      \cup {BundledCandidates(HostOf(win))[i] :
                               i \in DOMAIN BundledCandidates(HostOf(win))}),
        d \in {{}, {PathJoin(win, ToolsDir(HostOf(win)), <<"prettier">>)}},
        w \in {VNone, VStr(PathHit)}}

FindEnvs == UNION {FindEnvsOn(win) : win \in BOOLEAN}

PathOverrides == {VStr(<<>>), VStr(<<" ">>), VStr(CustomX), VStr(CustomXPadded),
                  VStr(<<"\n", "/opt/prettier", "\n">>), VNone, VInt(MaxNum)}

FindConfigs == {Update(FilteredDefaults, K("prettier_path") :> v) : v \in PathOverrides}

InitFind ==
    /\ file = [st |-> "unreadable", doc |-> VNone]
    /\ fileRead = [st |-> "unset", doc |-> VNone]
    /\ env \in FindEnvs
    /\ pc = "idle" /\ op = "none"
    /\ text = <<>> /\ lexer = "" /\ parser = W("")
    /\ config \in FindConfigs
    /\ exe = NoExe /\ cmd = NoCmd
    /\ timeout = VNone /\ child = NoChild /\ orphans = 0 /\ ret = VNone
    /\ outcome = "none"
    /\ Imported

\* the probe outcomes worth telling apart: no probe follows a zero exit status
ProbeScripts ==
    {o \in [1..4 -> ProbeOutcomes] :
        \A i \in 1..4 : (\E j \in 1..(i - 1) : o[j] = "zero") => o[i] = "zero"}

\* one call of find_prettier_executable(config)
FindCall ==
    /\ pc = "idle"
    /\ \E outcomes \in ProbeScripts :
          exe' = FindPrettierExecutable(config, env, outcomes)
    /\ pc' = IF exe'.kind = "raise" THEN "raised" ELSE "returned"
    /\ op' = "find"
    /\ UNCHANGED <<file, fileRead, env, text, lexer, parser, config, cmd, timeout, child,
                   orphans, ret, outcome, globals, prettierrc, customised, versionRun>>

NextFind == FindCall

SpecFind == InitFind /\ [][NextFind]_vars

\* ---- the claims on find_prettier_executable

Override == config[K("prettier_path")]

\* tier 2: the bundled file, tried as prettier.exe then prettier.cmd on Windows
BundledFile ==
    IF env.win
    THEN IF PathJoin(env.win, ToolsDir(env), <<"prettier.exe">>) \in env.files
         THEN PathJoin(env.win, ToolsDir(env), <<"prettier.exe">>)
         ELSE IF PathJoin(env.win, ToolsDir(env), <<"prettier.cmd">>) \in env.files
         THEN PathJoin(env.win, ToolsDir(env), <<"prettier.cmd">>)
         ELSE <<>>
    ELSE IF PathJoin(env.win, ToolsDir(env), <<"prettier">>) \in env.files
         THEN PathJoin(env.win, ToolsDir(env), <<"prettier">>)
         ELSE <<>>

\* tier 3: <cwd>/node_modules/.bin/prettier[.cmd]
LocalFile ==
    LET name == IF env.win THEN "prettier.cmd" ELSE "prettier"
        sep == IF env.win THEN "\\" ELSE "/"
        path == env.cwd \o <<sep, "node_modules", sep, ".bin", sep, name>>
    IN  IF path \in env.files THEN path ELSE <<>>

\* tier 4: the launcher and subcommand tokens of the i-th executor
Executor(i) ==
    LET suffix == IF env.win THEN ".cmd" ELSE ""
    IN  CASE i = 1 -> << <<"npx" \o suffix>>, <<"prettier">> >>
          [] i = 2 -> << <<"yarn" \o suffix>>, <<"exec">>, <<"prettier">> >>
          [] i = 3 -> << <<"pnpm" \o suffix>>, <<"exec">>, <<"prettier">> >>
          [] OTHER -> << <<"bunx" \o suffix>>, <<"prettier">> >>

\* the probes run are the first n executors in order, each asked for its version
\* under the timeout of 3, and none but the last exited with status zero
ProbesInOrder ==
    /\ Len(exe.probes) <= 4
    /\ \A i \in 1..Len(exe.probes) :
          /\ exe.probes[i].argv = Executor(i) \o << <<"--version">> >>
          /\ exe.probes[i].timeout = 3
          /\ i < Len(exe.probes) => exe.probes[i].outcome # "zero"

ProbeWon == exe.probes # <<>> /\ exe.probes[Len(exe.probes)].outcome = "zero"

\* C5: find_prettier_executable returns the hit of the first tier that matches:
\* the configured override, when it is non-empty and exists; then the bundled
\* file, the local install, the first executor whose probe exits with zero, the
\* search path.  It returns None exactly when no tier hits, and runs no probe
\* once an earlier tier hit.
C5_ChainOnConfiguredPath ==
    op = "find" =>
        IF Override.s # <<>> /\ Exists(env, Override.s)
        THEN exe = FoundPath(Override.s, <<>>)
        ELSE IF BundledFile # <<>> THEN exe = FoundPath(BundledFile, <<>>)
        ELSE IF LocalFile # <<>> THEN exe = FoundPath(LocalFile, <<>>)
        ELSE /\ ProbesInOrder
             /\ ProbeWon \/ Len(exe.probes) = 4
             /\ IF ProbeWon
                THEN /\ exe.kind = "path"
                     /\ Split(exe.path) = Executor(Len(exe.probes))
                ELSE IF env.which # VNone
                THEN exe.kind = "path" /\ exe.path = env.which.s
                ELSE exe.kind = "none"

\* ---------------------------------------------------------- the command builder

\* prettier_path.split() if ' ' in prettier_path else [prettier_path]
SeedTokens(prettier_path) ==
    IF HasSpace(prettier_path)
    THEN [i \in 1..Len(Split(prettier_path)) |-> VStr(Split(prettier_path)[i])]
    ELSE <<VStr(prettier_path)>>

\* if key in options: extend([flag, str(options[key])])
NumberFlag(options, key, flag) ==
    IF K(key) \in DOMAIN options THEN <<W(flag), PyStr(options[K(key)])>> ELSE <<>>

\* if key in options: extend([flag, options[key]])
EnumFlag(options, key, flag) ==
    IF K(key) \in DOMAIN options THEN <<W(flag), options[K(key)]>> ELSE <<>>

\* if options.get(key, False): append(flag)
OnFlag(options, key, flag) ==
    IF Truthy(Get(options, K(key), VBool(FALSE))) THEN <<W(flag)>> ELSE <<>>

\* if not options.get(key, True): append(flag)
OffFlag(options, key, flag) ==
    IF ~Truthy(Get(options, K(key), VBool(TRUE))) THEN <<W(flag)>> ELSE <<>>

\* range flags emitted only for the range options the block holds
RangeTokensIfPresent(options) ==
    NumberFlag(options, "rangeStart", "--range-start")
    \o NumberFlag(options, "rangeEnd", "--range-end")

\* the range flags, always emitted
RangeTokens(options) ==
    LET range_start == Get(options, K("rangeStart"), VNone)
        range_end == Get(options, K("rangeEnd"), VNone)
    IN  <<W("--range-start"), PyStr(IF range_start = VNone THEN VInt(0) ELSE range_start),
          W("--range-end"), PyStr(IF range_end = VNone THEN W("Infinity") ELSE range_end)>>

\* the inline option flags, in the order the builder appends them
OptionTokens(options) ==
    NumberFlag(options, "printWidth", "--print-width")
    \o NumberFlag(options, "tabWidth", "--tab-width")
    \o OnFlag(options, "useTabs", "--use-tabs")
    \o OffFlag(options, "semi", "--no-semi")
    \o OnFlag(options, "singleQuote", "--single-quote")
    \o OnFlag(options, "jsxSingleQuote", "--jsx-single-quote")
    \o EnumFlag(options, "quoteProps", "--quote-props")
    \o EnumFlag(options, "trailingComma", "--trailing-comma")
    \o OffFlag(options, "bracketSpacing", "--no-bracket-spacing")
    \o OnFlag(options, "bracketSameLine", "--bracket-same-line")
    \o EnumFlag(options, "arrowParens", "--arrow-parens")
    \o EnumFlag(options, "endOfLine", "--end-of-line")
    \o EnumFlag(options, "proseWrap", "--prose-wrap")
    \o EnumFlag(options, "htmlWhitespaceSensitivity", "--html-whitespace-sensitivity")
    \o OnFlag(options, "vueIndentScriptAndStyle", "--vue-indent-script-and-style")
    \o EnumFlag(options, "embeddedLanguageFormatting", "--embedded-language-formatting")
    \o OnFlag(options, "singleAttributePerLine", "--single-attribute-per-line")
    \o EnumFlag(options, "objectWrap", "--object-wrap")
    \o OnFlag(options, "experimentalTernaries", "--experimental-ternaries")
    \o OnFlag(options, "insertPragma", "--insert-pragma")
    \o OnFlag(options, "requirePragma", "--require-pragma")

\* a builder that never takes the project's file
UsesProjectConfigFileNever(cfg) == FALSE

\* config.get('use_prettier_config_file', True)
UsesProjectConfigFile(cfg) == Truthy(Get(cfg, K("use_prettier_config_file"), VBool(TRUE)))

\* ' '.join(cmd_parts) raises TypeError on an element that is not a string
JoinRaises(cmd_parts) == \E i \in 1..Len(cmd_parts) : cmd_parts[i].t # "str"

\* build_prettier_command(prettier_path, parser, config): cmd_parts when the
\* function is left, and whether it is left by the TypeError of the logging line
BuildPrettierCommand(prettier_path, p, cfg) ==
    LET head == SeedTokens(prettier_path) \o <<W("--parser"), p, W("--no-color")>>
        options == Get(cfg, K("prettier_options"), VDict(EmptyMap)).d
        cmd_parts == IF UsesProjectConfigFile(cfg)
                     THEN head
                     ELSE head \o OptionTokens(options) \o RangeTokens(options)
    IN  [raised |-> JoinRaises(cmd_parts), tokens |-> cmd_parts]

\* ---- the inputs enumerated for the builder

NpxPrettier == <<"npx", " ", "prettier">>
SpacedPath == <<"/my", " ", "tools/prettier">>

\* a width that is an object: {"b": 1, "a": ["a\\b", "it's"]}
NestedValue ==
    VDictIn((K("b") :> VInt(1)) @@
            (K("a") :> VList(<<VStr(<<"a", "\\", "b">>), VStr(<<"it", "'", "s">>)>>)),
            <<K("b"), K("a")>>)

BuildOptionBlocks ==
    {Update(base, block) :
        base \in {EmptyMap, FilterComments(DEFAULT_OPTIONS)},
        block \in DictsOf(
            (K("printWidth") :> {Absent, VInt(MaxNum), NestedValue}) @@
            (K("useTabs") :> {Absent, VBool(TRUE), VList(<<VInt(1)>>)}) @@
            (K("semi") :> {Absent, VBool(FALSE), VBool(TRUE)}) @@
            (K("quoteProps") :> {Absent, W("consistent"), VInt(MaxNum)}) @@
            (K("rangeStart") :> {Absent, VNone, VInt(0), VInt(MaxNum)}) @@
            (K("rangeEnd") :> {Absent, VNone, W("Infinity"), VInt(MaxNum)}))}

BuildConfigs ==
    {Update(FilteredDefaults,
            (K("use_prettier_config_file") :> u) @@ (K("prettier_options") :> VDict(o))) :
        u \in {VBool(TRUE), VBool(FALSE), VInt(0), VList(<<VInt(1)>>)},
        o \in BuildOptionBlocks}

InitBuild ==
    /\ file = [st |-> "unreadable", doc |-> VNone]
    /\ fileRead = [st |-> "unset", doc |-> VNone]
    /\ env = HostOf(FALSE)
    /\ pc = "idle" /\ op = "none"
    /\ text = <<>> /\ lexer = ""
    /\ parser \in {LEXER_TO_PARSER["JavaScript"], LEXER_TO_PARSER["CSS"]}
    /\ config \in BuildConfigs
    /\ exe \in {FoundPath(path, <<>>) : path \in {PathHit, NpxPrettier, SpacedPath}}
    /\ cmd = NoCmd
    /\ timeout = VNone /\ child = NoChild /\ orphans = 0 /\ ret = VNone
    /\ outcome = "none"
    /\ Imported

\* one call of build_prettier_command(prettier_path, parser, config)
BuildCall ==
    /\ pc = "idle"
    /\ cmd' = BuildPrettierCommand(exe.path, parser, config)
    /\ pc' = IF cmd'.raised THEN "raised" ELSE "returned"
    /\ op' = "build"
    /\ UNCHANGED <<file, fileRead, env, text, lexer, parser, config, exe, timeout, child,
                   orphans, ret, outcome, globals, prettierrc, customised, versionRun>>

NextBuild == BuildCall

SpecBuild == InitBuild /\ [][NextBuild]_vars

\* ---- the claims on build_prettier_command

BuiltOptions == config[OptionsKey].d
UseFlag == config[K("use_prettier_config_file")]
LastTokens(n) == SubSeq(cmd.tokens, Len(cmd.tokens) - n + 1, Len(cmd.tokens))

\* C7: with use_prettier_config_file true the command is the executable's seed
\* tokens, then '--parser', the parser, '--no-color', and nothing else, whatever
\* the options block holds.
C7_ProjectConfigNoFlags ==
    (op = "build" /\ UseFlag = VBool(TRUE)) =>
        /\ ~cmd.raised
        /\ cmd.tokens = SeedTokens(exe.path) \o <<W("--parser"), parser, W("--no-color")>>

\* a block that sets every enumerated option, ranges included, and adds no flag
C7_Witness ==
    /\ op = "build" /\ UseFlag = VBool(TRUE)
    /\ Get(BuiltOptions, K("printWidth"), VNone) = VInt(MaxNum)
    /\ Get(BuiltOptions, K("useTabs"), VNone) = VBool(TRUE)
    /\ Get(BuiltOptions, K("semi"), VNone) = VBool(FALSE)
    /\ Get(BuiltOptions, K("rangeStart"), VNone) = VInt(MaxNum)
    /\ Get(BuiltOptions, K("rangeEnd"), VNone) = VInt(MaxNum)
    /\ exe.path = NpxPrettier
    /\ cmd.tokens = <<W("npx"), W("prettier"), W("--parser"), W("css"), W("--no-color")>>

\* C10: with use_prettier_config_file false the token list ends with
\* '--range-start', S, '--range-end', E; S is '0' when rangeStart is absent, E is
\* 'Infinity' when rangeEnd is absent or is the string 'Infinity'.
C10_RangeAlwaysEmitted ==
    (op = "build" /\ UseFlag = VBool(FALSE)) =>
        /\ Len(cmd.tokens) >= 4
        /\ LastTokens(4)[1] = W("--range-start")
        /\ LastTokens(4)[3] = W("--range-end")
        /\ K("rangeStart") \notin DOMAIN BuiltOptions => LastTokens(4)[2] = W("0")
        /\ K("rangeEnd") \notin DOMAIN BuiltOptions => LastTokens(4)[4] = W("Infinity")
        /\ (K("rangeEnd") \in DOMAIN BuiltOptions /\ BuiltOptions[K("rangeEnd")] = W("Infinity"))
              => LastTokens(4)[4] = W("Infinity")

\* an empty options block: the command is the head and the two default ranges
C10_Witness ==
    /\ op = "build" /\ UseFlag = VBool(FALSE)
    /\ BuiltOptions = EmptyMap
    /\ cmd.tokens = <<W("/usr/bin/prettier"), W("--parser"), W("babel"), W("--no-color"),
                      W("--range-start"), W("0"), W("--range-end"), W("Infinity")>>

\* ---- the resolver's result handed to the builder

SpacedRoot == <<"/", "my", " ", "app">>
SpacedCwd == <<"/", "my", " ", "work">>
SpacedHit == <<"/my", " ", "bin/prettier">>

\* hosts whose directories and installs may have a space in their names
SeedEnvs ==
    {[HostOf(FALSE) EXCEPT !.root = r, !.cwd = c, !.files = f, !.which = w] :
        r \in {Root, SpacedRoot},
        c \in {Cwd, SpacedCwd},
        f \in SUBSET {SpacedPath,
                      PathJoin(FALSE, PathJoin(FALSE, PathJoin(FALSE, SpacedRoot, <<"tools">>),
                                               <<"Prettier">>),
                               <<"prettier">>),
                      PathJoin(FALSE, PathJoin(FALSE, PathJoin(FALSE, SpacedCwd,
                                                        <<"node_modules">>), <<".bin">>),
                               <<"prettier">>)},
        w \in {VNone, VStr(PathHit), VStr(SpacedHit)}}

SeedConfigs ==
    {Update(FilteredDefaults, K("prettier_path") :> v) : v \in {VStr(<<>>), VStr(SpacedPath)}}

InitSeed ==
    /\ file = [st |-> "unreadable", doc |-> VNone]
    /\ fileRead = [st |-> "unset", doc |-> VNone]
    /\ env \in SeedEnvs
    /\ pc = "idle" /\ op = "none"
    /\ text = <<>> /\ lexer = "" /\ parser = LEXER_TO_PARSER["JavaScript"]
    /\ config \in SeedConfigs
    /\ exe = NoExe /\ cmd = NoCmd
    /\ timeout = VNone /\ child = NoChild /\ orphans = 0 /\ ret = VNone
    /\ outcome = "none"
    /\ Imported

\* cmd = build_prettier_command(prettier_path, parser, config) on the path the
\* resolver has just returned
BuildFound ==
    /\ pc = "returned" /\ op = "find"
    /\ exe.kind = "path"
    /\ cmd' = BuildPrettierCommand(exe.path, parser, config)
    /\ pc' = IF cmd'.raised THEN "raised" ELSE "returned"
    /\ op' = "build"
    /\ UNCHANGED <<file, fileRead, env, text, lexer, parser, config, exe, timeout, child,
                   orphans, ret, outcome, globals, prettierrc, customised, versionRun>>

NextSeed == FindCall \/ BuildFound

SpecSeed == InitSeed /\ [][NextSeed]_vars

\* ---- the claim on the seed of the argument list

\* the tokens of the command that come before '--parser'
SeedOfCommand ==
    LET at == CHOOSE i \in 1..Len(cmd.tokens) :
                  /\ cmd.tokens[i] = W("--parser")
                  /\ \A j \in 1..(i - 1) : cmd.tokens[j] # W("--parser")
    IN  SubSeq(cmd.tokens, 1, at - 1)

\* C11: the argument list is seeded with the one token that is the path itself
\* when the resolver returned a filesystem path (override, bundled file, local
\* install or search-path hit), whatever characters the path holds, and with the
\* launcher and subcommand tokens only when tier 4 returned an executor.
C11_DirectPathIsOneToken ==
    op = "build" =>
        IF ProbeWon
        THEN SeedOfCommand = [i \in 1..Len(Executor(Len(exe.probes))) |->
                                 VStr(Executor(Len(exe.probes))[i])]
        ELSE SeedOfCommand = <<VStr(exe.path)>>

\* --------------------------------------------------------- the format request

NotRead == [st |-> "unset", doc |-> VNone]
DefaultTimeout == 10

\* not text or not text.strip()
NothingToFormat(txt) == txt = <<>> \/ IsBlank(txt)

\* lexer, or the editor's lexer when the argument is empty
EffectiveLexer(lx, e) == IF lx = "" THEN e.edLexer ELSE lx

\* a lookup that falls back to the babel parser
ResolveParserDefaulting(table, lx) ==
    IF lx \in DOMAIN table THEN table[lx] ELSE W("babel")

\* LEXER_TO_PARSER.get(lexer), with LEXER_TO_PARSER as it is at the call
ResolveParser(table, lx) == IF lx \in DOMAIN table THEN table[lx] ELSE VNone

\* the timeout handed to communicate(); a bool is an instance of int
EffectiveTimeout(cfg) ==
    LET t == Get(cfg, K("timeout_seconds"), VInt(DefaultTimeout))
    IN  IF t.t \notin {"int", "float", "bool"} \/ t.n <= 0 THEN VInt(DefaultTimeout) ELSE t

\* what do_format returns once communicate() has returned
ClassifyResult(rc, stdout) ==
    IF rc # 0 THEN [outcome |-> "failed", ret |-> VNone]
    ELSE IF stdout = <<>> THEN [outcome |-> "empty", ret |-> VNone]
    ELSE [outcome |-> "success", ret |-> VStr(stdout)]

\* text=True: the pipes carry text in the locale's encoding.  A lone surrogate
\* is a character no encoding writes; 0xff is a byte that is no text in UTF-8.
Unencodable == {"\\udcff"}
Undecodable == {"\\xff"}

\* text.encode() succeeds
Encodes(txt) == \A i \in 1..Len(txt) : txt[i] \notin Unencodable
\* bytes.decode() succeeds
Decodes(bytes) == \A i \in 1..Len(bytes) : bytes[i] \notin Undecodable

\* the decoded text with universal newlines: "\r\n" and "\r" become "\n"
RECURSIVE TranslateNewlinesFrom(_, _)
TranslateNewlinesFrom(data, i) ==
    IF i > Len(data) THEN <<>>
    ELSE IF data[i] = "\r"
    THEN <<"\n">> \o TranslateNewlinesFrom(data, IF i < Len(data) /\ data[i + 1] = "\n"
                                                   THEN i + 2 ELSE i + 1)
    ELSE <<data[i]>> \o TranslateNewlinesFrom(data, i + 1)

TranslateNewlines(data) == TranslateNewlinesFrom(data, 1)

\* stdout, stderr = process.communicate(...) on a child that ended with status
\* rc having written out and err, and what do_format makes of it: a stream that
\* does not decode raises UnicodeDecodeError, which the last handler logs
CommunicateResult(rc, out, err) ==
    IF ~Decodes(out) \/ ~Decodes(err)
    THEN [outcome |-> "error", ret |-> VNone]
    ELSE ClassifyResult(rc, TranslateNewlines(out))

\* the stages of do_format(text, lexer) up to the call of communicate().  Each
\* yields the exit taken ("none": the process was spawned and do_format waits
\* for it) and what the stages before it produced.
RequestStart(f, g) ==
    [outcome |-> "none", ret |-> VNone, file |-> f, fileRead |-> NotRead,
     parser |-> VNone, config |-> EmptyMap, exe |-> NoExe, cmd |-> NoCmd,
     timeout |-> VNone, spawned |-> FALSE, globals |-> g]

\* the timeout is validated and the process spawned
SpawnStage(s, e) ==
    LET t == [s EXCEPT !.timeout = EffectiveTimeout(s.config)]
    IN  IF ~e.spawns THEN [t EXCEPT !.outcome = "spawnfailed"]
        ELSE [t EXCEPT !.spawned = TRUE]

\* cmd = build_prettier_command(prettier_path, parser, config)
BuildStage(s, e, built) ==
    IF built.raised
    THEN [s EXCEPT !.cmd = built, !.outcome = "raised"]
    ELSE SpawnStage([s EXCEPT !.cmd = built], e)

\* if not (prettier_path := find_prettier_executable(config)): return None
FindStage(s, e, found) ==
    IF found.kind = "raise" THEN [s EXCEPT !.exe = found, !.outcome = "raised"]
    ELSE IF found.kind = "none" THEN [s EXCEPT !.exe = found, !.outcome = "notfound"]
    ELSE BuildStage([s EXCEPT !.exe = found], e,
                    BuildPrettierCommand(found.path, s.parser, s.config))

\* config = load_config()
LoadStage(s, e, outcomes, loaded) ==
    FindStage([s EXCEPT !.file = loaded.file, !.fileRead = s.file, !.config = loaded.config,
                        !.globals.DEFAULT_CONFIG = loaded.defaults],
              e, FindPrettierExecutable(loaded.config, e, outcomes))

\* if not (parser := LEXER_TO_PARSER.get(lexer)): return None
ParserStage(s, e, writable, outcomes, p) ==
    IF ~Truthy(p)
    THEN [s EXCEPT !.parser = p, !.outcome = "unsupported"]
    ELSE LoadStage([s EXCEPT !.parser = p], e, outcomes,
                   LoadConfig(s.globals.DEFAULT_CONFIG, s.file, writable))

\* f and g: the config file and the module's globals when the call starts
DoFormatUntilSpawn(txt, lx, f, g, e, writable, outcomes) ==
    IF NothingToFormat(txt)
    THEN [RequestStart(f, g) EXCEPT !.outcome = "asis", !.ret = VStr(txt)]
    ELSE ParserStage(RequestStart(f, g), e, writable, outcomes,
                     ResolveParser(g.LEXER_TO_PARSER, EffectiveLexer(lx, e)))

\* ---- the requests, hosts and config files enumerated for do_format

RECURSIVE SeqsUpTo(_, _)
SeqsUpTo(atoms, n) ==
    IF n = 0 THEN {<<>>}
    ELSE SeqsUpTo(atoms, n - 1)
         \cup {Append(s, a) : s \in {x \in SeqsUpTo(atoms, n - 1) : Len(x) = n - 1}, a \in atoms}

\* the calls of do_format: text and lexer
Requests ==
    {[text |-> t, lexer |-> "JavaScript"] :
        t \in SeqsUpTo({"x=1"}, MaxLen) \cup {<<" ">>, <<"x=1", "\\udcff">>}}
    \cup {[text |-> t, lexer |-> "PlainText"] : t \in {<<>>, <<"\n">>, <<" ", "x=1">>}}
    \cup {[text |-> <<"x=1", "\n">>, lexer |-> ""]}
\* what the child writes to its standard output
Outputs ==
    SeqsUpTo({"x = 1;"}, MaxLen)
    \cup {<<" ">>, <<"x = 1;", " ">>, <<"x = 1;", "\r", "\n">>, <<"x = 1;", "\r">>,
          <<"x = 1;", "\\xff">>}
\* what the child writes to its two streams
ChildStreams ==
    {[out |-> o, err |-> <<>>] : o \in Outputs}
    \cup {[out |-> <<"x = 1;">>, err |-> e] : e \in {<<"warning">>, <<"\\xff">>}}

\* hosts: with and without the configured file and a prettier on the search
\* path, one where the spawn fails and one whose editor holds a stylesheet
MainEnvs ==
    {[HostOf(FALSE) EXCEPT !.files = f, !.which = w] :
        f \in {{}, {CustomX}}, w \in {VNone, VStr(PathHit)}}
    \cup {[HostOf(FALSE) EXCEPT !.which = VStr(PathHit), !.spawns = FALSE],
          [HostOf(FALSE) EXCEPT !.which = VStr(PathHit), !.edLexer = "CSS"]}

\* the search path has no prettier: npx answers, or no executor does
MainProbeScripts ==
    {[i \in 1..4 |-> "zero"], [i \in 1..4 |-> "nonzero"]}

MainDocs ==
    {VList(<<>>)} \cup
    {VDict(d) : d \in
        DictsOf((K("prettier_path") :> {Absent, VNone, VStr(CustomX)}) @@
                (K("use_prettier_config_file") :> {Absent, VBool(FALSE)})) \cup
        DictsOf((K("timeout_seconds") :>
                    {VInt(0), VInt(MaxNum), VInt(-1), VFloat(MaxNum), VBool(TRUE),
                     VBool(FALSE), W("5"), VNone})) \cup
        DictsOf((K("use_prettier_config_file") :> {VBool(FALSE)}) @@
                (K("prettier_options") :>
                    {VDict(K("quoteProps") :> VInt(MaxNum)),
                     VDict(K("quoteProps") :> W("consistent"))}))}

MainFiles ==
    {[st |-> "missing", doc |-> VNone], [st |-> "unreadable", doc |-> VNone]} \cup
    {[st |-> "ok", doc |-> d] : d \in MainDocs}

\* what a rewrite of the config file leaves
EditedFiles ==
    {[st |-> "missing", doc |-> VNone],
     [st |-> "unreadable", doc |-> VNone],
     [st |-> "ok", doc |-> VDict(K("prettier_path") :> VStr(CustomX))],
     [st |-> "ok", doc |-> VDict((K("use_prettier_config_file") :> VBool(FALSE)) @@
                                 (K("prettier_options") :>
                                     VDict(K("quoteProps") :> W("consistent"))))]}

\* per-request state of a host that waits for no request
Idle ==
    /\ pc = "idle" /\ op = "none"
    /\ fileRead = NotRead
    /\ text = <<>> /\ lexer = "" /\ parser = VNone
    /\ config = EmptyMap
    /\ exe = NoExe /\ cmd = NoCmd
    /\ timeout = VNone /\ child = NoChild /\ ret = VNone
    /\ outcome = "none"

Init ==
    /\ file \in MainFiles
    /\ env \in MainEnvs
    /\ orphans = 0
    /\ Idle
    /\ Imported

\* probes that all fail: the answers the first step of a request is worked out
\* with, to see whether the resolver comes to wait for a probe at all
NoAnswers == [i \in 1..4 |-> "nonzero"]

\* the host calls do_format(txt, lx).  The call runs to the first point where
\* it waits for another process: the resolver's first probe ("probing"), or
\* communicate() when the resolver finds the executable without a probe.
DoFormat ==
    /\ pc = "idle"
    /\ \E req \in Requests, writable \in BOOLEAN :
          \E r \in {DoFormatUntilSpawn(req.text, req.lexer, file, globals, env, writable,
                                        NoAnswers)} :
              /\ text' = req.text /\ lexer' = req.lexer
              /\ file' = r.file /\ fileRead' = r.fileRead
              /\ globals' = r.globals
              /\ customised' = (customised \/ (r.fileRead # NotRead
                                                /\ r.config[K("prettier_options")]
                                                   # FilteredDefaults[K("prettier_options")]))
              /\ parser' = r.parser /\ config' = r.config
              /\ IF r.exe.probes # <<>>
                 THEN /\ exe' = NoExe /\ cmd' = NoCmd /\ timeout' = VNone
                      /\ ret' = VNone /\ outcome' = "none"
                      /\ child' = NoChild
                      /\ pc' = "probing"
                 ELSE /\ exe' = r.exe /\ cmd' = r.cmd /\ timeout' = r.timeout
                      /\ ret' = r.ret /\ outcome' = r.outcome
                      /\ child' = IF r.spawned THEN [NoChild EXCEPT !.st = "running"]
                                  ELSE NoChild
                      /\ pc' = IF r.spawned THEN "communicating"
                               ELSE IF r.outcome = "raised" THEN "raised" ELSE "returned"
    /\ op' = "do_format"
    /\ UNCHANGED <<env, orphans, prettierrc, versionRun>>

\* the request as it stands while the resolver probes
Resumed ==
    [RequestStart(file, globals) EXCEPT !.fileRead = fileRead, !.parser = parser,
                                        !.config = config]

\* the probes of the resolver have answered: find_prettier_executable returns
\* and do_format runs on to communicate()
ProbesAnswer ==
    /\ pc = "probing"
    /\ op = "do_format"
    /\ \E outcomes \in MainProbeScripts :
          \E r \in {FindStage(Resumed, env, FindPrettierExecutable(config, env, outcomes))} :
              /\ exe' = r.exe /\ cmd' = r.cmd /\ timeout' = r.timeout
              /\ ret' = r.ret /\ outcome' = r.outcome
              /\ child' = IF r.spawned THEN [NoChild EXCEPT !.st = "running"] ELSE NoChild
              /\ pc' = IF r.spawned THEN "communicating"
                       ELSE IF r.outcome = "raised" THEN "raised" ELSE "returned"
    /\ UNCHANGED <<file, fileRead, env, op, text, lexer, parser, config, orphans, globals,
                   prettierrc, customised, versionRun>>

\* communicate() cannot encode the text for the child's pipe: it raises
\* UnicodeEncodeError before it waits, and the last handler logs and returns None
CommunicateRaises ==
    /\ pc = "communicating"
    /\ ~Encodes(text)
    /\ ret' = VNone
    /\ outcome' = "error"
    /\ pc' = "returned"
    /\ UNCHANGED <<file, fileRead, env, op, text, lexer, parser, config, exe, cmd, timeout,
                   child, orphans, globals, prettierrc, customised, versionRun>>

\* the child ends within the timeout: communicate() decodes what it wrote, and
\* do_format classifies the result
ChildCompletes ==
    /\ pc = "communicating"
    /\ Encodes(text)
    /\ \E rc \in {0, 1}, streams \in ChildStreams :
          \E r \in {CommunicateResult(rc, streams.out, streams.err)} :
              /\ child' = [st |-> "completed", rc |-> rc,
                           out |-> streams.out, err |-> streams.err]
              /\ ret' = r.ret
              /\ outcome' = r.outcome
    /\ pc' = "returned"
    /\ UNCHANGED <<file, fileRead, env, op, text, lexer, parser, config, exe, cmd, timeout,
                   orphans, globals, prettierrc, customised, versionRun>>

\* communicate() raises TimeoutExpired; the handler logs and returns None
CommunicateTimesOut ==
    /\ pc = "communicating"
    /\ Encodes(text)
    /\ ret' = VNone
    /\ outcome' = "timeout"
    /\ pc' = "returned"
    /\ UNCHANGED <<file, fileRead, env, op, text, lexer, parser, config, exe, cmd, timeout,
                   child, orphans, globals, prettierrc, customised, versionRun>>

\* a child do_format stopped waiting for ends by itself
ChildEndsLater ==
    /\ pc = "returned"
    /\ child.st = "running"
    /\ \E rc \in {0, 1} : child' = [st |-> "ended", rc |-> rc, out |-> <<>>, err |-> <<>>]
    /\ UNCHANGED <<file, fileRead, env, pc, op, text, lexer, parser, config, exe, cmd, timeout,
                   orphans, ret, outcome, globals, prettierrc, customised, versionRun>>

\* the caller has the result (or the exception); nothing of the request is kept
\* but a child that is still running
RequestOver ==
    /\ pc \in {"returned", "raised"}
    /\ child.st = "running" => orphans < MaxOrphans
    /\ orphans' = IF child.st = "running" THEN orphans + 1 ELSE orphans
    /\ pc' = "idle" /\ op' = "none"
    /\ fileRead' = NotRead
    /\ text' = <<>> /\ lexer' = "" /\ parser' = VNone
    /\ config' = EmptyMap
    /\ exe' = NoExe /\ cmd' = NoCmd
    /\ timeout' = VNone /\ child' = NoChild /\ ret' = VNone
    /\ outcome' = "none"
    /\ versionRun' = NoRun
    /\ UNCHANGED <<file, env, globals, prettierrc, customised>>

\* a child of an earlier request ends
OrphanEnds ==
    /\ orphans > 0
    /\ orphans' = orphans - 1
    /\ UNCHANGED <<file, fileRead, env, pc, op, text, lexer, parser, config, exe, cmd, timeout,
                   child, ret, outcome, globals, prettierrc, customised, versionRun>>

\* the user edits, removes or damages the config file, between requests or
\* while one is in progress
EditConfigFile ==
    /\ file' \in EditedFiles
    /\ UNCHANGED <<fileRead, env, pc, op, text, lexer, parser, config, exe, cmd, timeout, child,
                   orphans, ret, outcome, globals, prettierrc, customised, versionRun>>

Next ==
    \/ DoFormat
    \/ ProbesAnswer
    \/ CommunicateRaises
    \/ ChildCompletes
    \/ CommunicateTimesOut
    \/ ChildEndsLater
    \/ RequestOver
    \/ OrphanEnds
    \/ EditConfigFile

Spec == Init /\ [][Next]_vars

\* ---- the commands of a session: requests, loads, the config and help
\* ---- commands, create_prettierrc, edits

MaxInt32 == 2147483647

\* the content create_prettierrc writes: the default options without their
\* comments, rangeEnd replaced by the largest 32-bit integer
PrettierrcConfig(defaults) ==
    LET filtered == FilterComments(defaults[K("prettier_options")].d)
    IN  IF K("rangeEnd") \in DOMAIN filtered
        THEN [filtered EXCEPT ![K("rangeEnd")] = VInt(MaxInt32)]
        ELSE filtered

\* the lexers the editor may give the .prettierrc or the config file it opens
PrettierrcLexers == {"", "JSON"}

\* Command.config(): load_config() runs only when the config file does not
\* exist, to create it; ct.file_open then makes the config file the document in
\* the editor (when there is still no file, the editor may keep its document).
ConfigCommand ==
    /\ pc = "idle"
    /\ file.st # "nopath"
    /\ \E writable \in BOOLEAN :
          \E r \in {LoadConfig(globals.DEFAULT_CONFIG, file, writable)} :
              IF file.st = "missing"
              THEN /\ config' = r.config /\ file' = r.file /\ fileRead' = file
                   /\ globals' = [globals EXCEPT !.DEFAULT_CONFIG = r.defaults]
                   /\ customised' = (customised \/ r.config[K("prettier_options")]
                                                     # FilteredDefaults[K("prettier_options")])
              ELSE UNCHANGED <<config, file, fileRead, globals, customised>>
    /\ \E l \in PrettierrcLexers \cup {env.edLexer} :
          /\ file'.st = "ok" => l \in PrettierrcLexers
          /\ env' = [env EXCEPT !.edLexer = l]
    /\ pc' = "returned"
    /\ op' = "config"
    /\ UNCHANGED <<text, lexer, parser, exe, cmd, timeout, child, orphans, ret, outcome,
                   prettierrc, versionRun>>

\* the version subprocess of Command.help: cmd_parts + ['--version'] under the
\* timeout of 3, run when the resolver returned a path; result is "running"
\* while subprocess.run waits for it
VersionRun(found, result) ==
    IF found.kind = "path"
    THEN [argv |-> SeedTokens(found.path) \o <<W("--version")>>,
          timeout |-> ProbeTimeout,
          outcome |-> result]
    ELSE NoRun

\* Command.help() once find_prettier_executable(config) is over: an exception
\* of the resolver leaves the command, a path starts the version subprocess,
\* and None goes straight to the message box
HelpAfterFind(found) ==
    [exe |-> found,
     versionRun |-> VersionRun(found, "running"),
     pc |-> CASE found.kind = "raise" -> "raised"
              [] found.kind = "path" -> "versioning"
              [] OTHER -> "msgbox"]

\* Command.help() is called.  It runs load_config() and the resolver up to the
\* first point where it waits: the resolver's first probe ("probing"), the
\* version subprocess ("versioning") or the message box ("msgbox").
HelpCommand ==
    /\ pc = "idle"
    /\ \E writable \in BOOLEAN :
          \E r \in {LoadConfig(globals.DEFAULT_CONFIG, file, writable)} :
              \E found \in {FindPrettierExecutable(r.config, env, NoAnswers)} :
                  \E h \in {HelpAfterFind(found)} :
                      /\ config' = r.config /\ file' = r.file /\ fileRead' = file
                      /\ globals' = [globals EXCEPT !.DEFAULT_CONFIG = r.defaults]
                      /\ customised' =
                            (customised \/ r.config[K("prettier_options")]
                                              # FilteredDefaults[K("prettier_options")])
                      /\ IF found.probes # <<>>
                         THEN exe' = NoExe /\ versionRun' = NoRun /\ pc' = "probing"
                         ELSE exe' = h.exe /\ versionRun' = h.versionRun /\ pc' = h.pc
    /\ op' = "help"
    /\ UNCHANGED <<env, text, lexer, parser, cmd, timeout, child, orphans, ret, outcome,
                   prettierrc>>

\* the probes of the resolver have answered: find_prettier_executable returns
\* to Command.help
HelpProbesAnswer ==
    /\ pc = "probing"
    /\ op = "help"
    /\ \E outcomes \in MainProbeScripts :
          \E h \in {HelpAfterFind(FindPrettierExecutable(config, env, outcomes))} :
              exe' = h.exe /\ versionRun' = h.versionRun /\ pc' = h.pc
    /\ UNCHANGED <<file, fileRead, env, op, text, lexer, parser, config, cmd, timeout,
                   child, orphans, ret, outcome, globals, prettierrc, customised>>

\* subprocess.run of the version query is over: it returned, timed out or
\* raised, and every exception is swallowed; the message box opens
VersionRunEnds ==
    /\ pc = "versioning"
    /\ \E result \in ProbeOutcomes : versionRun' = [versionRun EXCEPT !.outcome = result]
    /\ pc' = "msgbox"
    /\ UNCHANGED <<file, fileRead, env, op, text, lexer, parser, config, exe, cmd, timeout,
                   child, orphans, ret, outcome, globals, prettierrc, customised>>

\* the user closes the message box of Command.help or of create_prettierrc:
\* the command returns
MsgBoxClosed ==
    /\ pc = "msgbox"
    /\ pc' = "returned"
    /\ UNCHANGED <<file, fileRead, env, op, text, lexer, parser, config, exe, cmd, timeout,
                   child, orphans, ret, outcome, globals, prettierrc, customised,
                   versionRun>>

\* Command.create_prettierrc().  saved: whether the document in the editor is a
\* saved file of the project; writable: whether the file can be created.  The
\* dict that gets the new rangeEnd is the one _filter_comments built, so
\* DEFAULT_CONFIG is only read.  ct.file_open makes the .prettierrc the document
\* in the editor.  With no saved document the command waits in a message box.
CreatePrettierrc ==
    /\ pc = "idle"
    /\ \E saved \in BOOLEAN, writable \in BOOLEAN, l \in PrettierrcLexers :
          /\ prettierrc' =
                IF saved /\ prettierrc.st = "missing" /\ writable
                THEN [st |-> "ok",
                      doc |-> VDictIn(PrettierrcConfig(globals.DEFAULT_CONFIG),
                                      FilterOrder(globals.DEFAULT_CONFIG[
                                                      K("prettier_options")].k))]
                ELSE prettierrc
          /\ env' = IF saved /\ prettierrc'.st = "ok"
                    THEN [env EXCEPT !.edLexer = l]
                    ELSE env
          /\ pc' = IF saved THEN "returned" ELSE "msgbox"
    /\ op' = "create_prettierrc"
    /\ UNCHANGED <<file, fileRead, text, lexer, parser, config, exe, cmd, timeout, child,
                   orphans, ret, outcome, globals, customised, versionRun>>

\* a host with the configured executable and a prettier on the search path
SessionHost == [HostOf(FALSE) EXCEPT !.files = {CustomX}, !.which = VStr(PathHit)]

InitSession ==
    /\ file \in MainFiles
    /\ env = SessionHost
    /\ orphans = 0
    /\ Idle
    /\ Imported

NextSession ==
    \/ Next
    \/ LoadConfigCall
    \/ ConfigCommand
    \/ HelpCommand
    \/ HelpProbesAnswer
    \/ VersionRunEnds
    \/ MsgBoxClosed
    \/ CreatePrettierrc

SpecSession == InitSession /\ [][NextSession]_vars

\* ---- the claim on the session

\* the object the last load read, and its options block; empty when it read none
UserObject == IF ReadObject THEN fileRead.doc.d ELSE EmptyMap
UserOptions == IF ReadOptions THEN fileRead.doc.d[OptionsKey].d ELSE EmptyMap
\* the last load read an object that load_config merges
Merged == ReadObject /\ (OptionsKey \in DOMAIN UserObject => ReadOptions)

\* C12: in every sequence of load_config, do_format and create_prettierrc calls
\* and edits of the config file, DEFAULT_CONFIG and LEXER_TO_PARSER stay as
\* imported, and the configuration a load returned is fixed by the file as that
\* load found it and the constant defaults: every key the file sets has the
\* file's value, every other key has the default's value whatever earlier loads
\* returned, and a file that is not merged yields the defaults.
C12_LoadsDependOnFileOnly ==
    /\ globals = ModuleGlobals
    /\ fileRead.st # "unset" =>
          /\ config[OptionsKey].t = "dict"
          /\ \A k \in DOMAIN config \ {OptionsKey} :
                IF Merged /\ k \in DOMAIN UserObject
                THEN config[k] = UserObject[k]
                ELSE k \in DOMAIN DEFAULT_CONFIG /\ config[k] = DEFAULT_CONFIG[k]
          /\ \A k \in DOMAIN LoadedOptions :
                IF Merged /\ k \in PlainKeys(UserOptions)
                THEN LoadedOptions[k] = UserOptions[k]
                ELSE k \in DOMAIN DEFAULT_OPTIONS /\ LoadedOptions[k] = DEFAULT_OPTIONS[k]
          /\ Merged => /\ PlainKeys(UserObject) \subseteq DOMAIN config
                       /\ PlainKeys(UserOptions) \subseteq DOMAIN LoadedOptions

\* an earlier load returned the user's options, create_prettierrc has written its
\* file, a request has left a child behind, the user has taken the options out of
\* the config file, and the load that follows returns the default options
C12_Witness ==
    /\ customised
    /\ prettierrc.st = "ok"
    /\ Get(prettierrc.doc.d, K("rangeEnd"), VNone) = VInt(MaxInt32)
    /\ orphans > 0
    /\ op = "load_config"
    /\ file = fileRead
    /\ ReadObject
    /\ OptionsKey \notin DOMAIN UserObject
    /\ Get(UserObject, K("prettier_path"), VNone) = VStr(CustomX)
    /\ Get(config, K("prettier_path"), VNone) = VStr(CustomX)
    /\ LoadedOptions = DEFAULT_OPTIONS

\* ---- the claims on do_format

\* the language the request is about: the argument, or the editor's lexer
RequestedLanguage == IF lexer = "" THEN env.edLexer ELSE lexer
Unsupported == op = "do_format" /\ RequestedLanguage \notin DOMAIN LEXER_TO_PARSER
BlankText == \A i \in 1..Len(text) : text[i] \in Whitespace
\* no probe and no formatter process was started for the request
NoSubprocess == exe.probes = <<>> /\ child.st = "none"

\* C1: a request that returns on the timeout returns no text, and its child
\* process is not running any more when it returns.
C1_TimeoutLeavesNoChild ==
    (pc = "returned" /\ outcome = "timeout") => (ret = VNone /\ child.st # "running")

\* C2: whatever the config file holds, a format request returns to its caller;
\* no exception leaves do_format.
C2_NoExceptionEscapes == pc # "raised"

\* C4 as stated: for every text and every language absent from LEXER_TO_PARSER
\* do_format returns None and starts no subprocess.
C4_UnsupportedReturnsNone ==
    Unsupported => (pc = "returned" /\ ret = VNone /\ NoSubprocess)

\* C4 as the code has it: for every language absent from LEXER_TO_PARSER
\* do_format starts no subprocess and resolves no parser; it returns None for a
\* text that is not blank, and the text itself for an empty or whitespace-only one.
C4_UnsupportedStartsNothing ==
    Unsupported =>
        /\ pc = "returned"
        /\ NoSubprocess
        /\ parser = VNone /\ cmd = NoCmd
        /\ ret = IF BlankText THEN VStr(text) ELSE VNone

\* text to format in a language the mapping lacks
C4_Witness ==
    /\ Unsupported
    /\ lexer = "PlainText"
    /\ text = <<" ", "x=1">>
    /\ outcome = "unsupported"
    /\ ret = VNone

\* C6: once the spawned formatter has completed within the timeout, do_format
\* returns what the process wrote to its standard output, unchanged, if the exit
\* status is zero and the output is not empty, and None otherwise.
C6_CompletedResult ==
    child.st = "completed" =>
        /\ pc = "returned"
        /\ ret = IF child.rc = 0 /\ child.out # <<>> THEN VStr(child.out) ELSE VNone

\* C9: the timeout handed to the subprocess is the configured timeout_seconds when
\* that is a positive number, and 10 for every other configured value.
C9_TimeoutValidated ==
    child.st # "none" =>
        LET configured == config[K("timeout_seconds")]
        IN  timeout = IF configured.t \in {"int", "float"} /\ configured.n > 0
                      THEN configured
                      ELSE VInt(10)

====
